---- MODULE Spec2Model ----
(***************************************************************************)
(* kmod-modinfo (tools/kmod-modinfo.c): the report of a kernel module's    *)
(* metadata.  main() walks the module identifiers of the command line;     *)
(* each one is a module file (modinfo_path_do) or an alias that expands to *)
(* a list of modules (modinfo_alias_do); modinfo_do() prints one module's  *)
(* report, merging its "parm"/"parmtype" records with add_param().         *)
(*                                                                         *)
(* A C string is a sequence of one-character strings.  A pointer that may  *)
(* be NULL is a sequence of length 0 (NULL) or 1 (the pointed-to string).  *)
(* stdout is the sequence of the texts written by the printf() calls, and  *)
(* stderr the sequence of the LOG() calls, each a record naming its        *)
(* message and arguments.                                                  *)
(***************************************************************************)
EXTENDS Integers, Sequences, FiniteSets, TLC

VARIABLES
    separator,   \* static char separator
    field,       \* static const char *field
    argv,        \* argv[optind..argc-1], each with what libkmod answers for it
    i,           \* main: index of the identifier being processed
    mainErr,     \* main: err
    exitStatus,  \* the value main returns, 0 - 1 while it runs
    modlist,     \* modinfo_alias_do: list
    j,           \* modinfo_alias_do: position of l in list
    aliasErr,    \* modinfo_alias_do: err
    caller,      \* who called modinfo_do: "path" or "alias"
    mod,         \* modinfo_do: mod
    list,        \* modinfo_do: list
    l,           \* modinfo_do: position of l in list
    params,      \* modinfo_do: params, head first
    err,         \* modinfo_do: err
    out,         \* stdout
    diag,        \* stderr
    outMark,     \* Len(out) when the current modinfo_do was entered
    diagMark,    \* Len(diag) when the current modinfo_do was entered
    reported,    \* the <<identifier, module>> positions modinfo_do returned for
    pc

vars == <<separator, field, argv, i, mainErr, exitStatus, modlist, j, aliasErr,
          caller, mod, list, l, params, err, out, diag, outMark, diagMark,
          reported, pc>>

(***************************************************************************)
(* Bounds of the model.                                                    *)
(***************************************************************************)
MaxPairs == 3

MaxArgs == 2

MaxMods == 2

(***************************************************************************)
(* Characters, strings and pointers.                                       *)
(***************************************************************************)
NUL == "NUL"

NULL == <<>>

Ptr(s) == <<s>>

Deref(p) == p[1]

Min(a, b) == IF a < b THEN a ELSE b

Abs(n) == IF n < 0 THEN 0 - n ELSE n

Spaces(n) == [k \in 1..n |-> " "]

\* strchr(s, c): the position of the first c in s, 0 for NULL
strchr(s, c) ==
    IF \E k \in 1..Len(s) : s[k] = c
    THEN CHOOSE k \in 1..Len(s) : s[k] = c /\ \A m \in 1..(k - 1) : s[m] # c
    ELSE 0

\* the string that starts at position k of s (a pointer into s)
StrFrom(s, k) == SubSeq(s, k, Len(s))

\* printf "%.*s": at most n bytes of s
PrecStr(n, s) == SubSeq(s, 1, Min(n, Len(s)))

\* printf "%-*s": s left-justified in a field of width w; a negative width
\* argument is taken as the '-' flag and the width -w
LeftJustify(w, s) == s \o Spaces(Abs(w) - Min(Abs(w), Len(s)))

LabelWidth == 16

PadWidth == 15

S_filename == <<"f","i","l","e","n","a","m","e">>

S_parm == <<"p","a","r","m">>

S_parmtype == <<"p","a","r","m","t","y","p","e">>

S_param == <<"p","a","r","a","m">>

S_author == <<"a","u","t","h","o","r">>

S_license == <<"l","i","c","e","n","s","e">>

EXIT_SUCCESS == 0

EXIT_FAILURE == 1

(***************************************************************************)
(* add_param: look the name up in the list; a name not found gets a new    *)
(* entry, linked in at the head; then the description and the type given   *)
(* (not NULL) are stored.  malloc_ok is malloc()'s outcome.  ret is the    *)
(* position of the entry returned, NULL when malloc failed.                *)
(***************************************************************************)
FindParam(name, namelen, plist) ==
    IF \E k \in 1..Len(plist) :
           plist[k].namelen = namelen
           /\ PrecStr(namelen, plist[k].name) = PrecStr(namelen, name)
    THEN CHOOSE k \in 1..Len(plist) :
           /\ plist[k].namelen = namelen
           /\ PrecStr(namelen, plist[k].name) = PrecStr(namelen, name)
           /\ \A m \in 1..(k - 1) :
                ~(plist[m].namelen = namelen
                  /\ PrecStr(namelen, plist[m].name) = PrecStr(namelen, name))
    ELSE 0

NewParam(name, namelen) ==
    [name |-> name, namelen |-> namelen, param |-> NULL, type |-> NULL,
     paramlen |-> 0, typelen |-> 0]

\* a variant that links the new entry in at the tail
LinkParam_tail(it, plist) == plist \o <<it>>

LinkParam(it, plist) == <<it>> \o plist

SetParam(it, param, paramlen, type, typelen) ==
    LET a == IF param # NULL
             THEN [it EXCEPT !.param = param, !.paramlen = paramlen]
             ELSE it
    IN  IF type # NULL
        THEN [a EXCEPT !.type = type, !.typelen = typelen]
        ELSE a

add_param(name, namelen, param, paramlen, type, typelen, plist, malloc_ok) ==
    LET k == FindParam(name, namelen, plist)
    IN  IF k = 0 /\ ~malloc_ok
        THEN [ret |-> NULL, list |-> plist]
        ELSE LET base == IF k = 0
                         THEN LinkParam(NewParam(name, namelen), plist)
                         ELSE plist
                 at == IF k = 0 THEN 1 ELSE k
             IN  [ret |-> Ptr(at),
                  list |-> [base EXCEPT
                              ![at] = SetParam(base[at], param, paramlen,
                                               type, typelen)]]

(***************************************************************************)
(* The arguments modinfo_do passes to add_param for a parm or parmtype     *)
(* record whose value has its first ':' at position colon.                 *)
(***************************************************************************)
IsParamKey(key) == key = S_param

ParmArgs(key, value, colon) ==
    IF IsParamKey(key)
    THEN [name |-> value, namelen |-> colon - 1,
          param |-> Ptr(StrFrom(value, colon + 1)),
          paramlen |-> Len(value) - colon,
          type |-> NULL, typelen |-> 0]
    ELSE [name |-> value, namelen |-> colon - 1,
          param |-> NULL, paramlen |-> 0,
          type |-> Ptr(StrFrom(value, colon + 1)),
          typelen |-> Len(value) - colon]

IsParmRecord(key) == key = S_parm \/ key = S_parmtype

(***************************************************************************)
(* The texts modinfo_do prints.                                            *)
(***************************************************************************)
\* printf("%s%c", kmod_module_get_path(mod), separator)
FilenameOnlyLine(path, sep) == path \o <<sep>>

\* printf("%-16s%s%c", "filename:", kmod_module_get_path(mod), separator)
FilenameLine(path, sep) ==
    LeftJustify(LabelWidth, S_filename \o <<":">>) \o path \o <<sep>>

\* printf("%s%c", value, separator)
FilteredLine(value, sep) == value \o <<sep>>

\* printf("%s=%s%c", ...) when the separator is NUL, else
\* printf("%s:%-*s%s%c", key, 15 - keylen, "", value, separator)
PairLine_colon(key, value, sep) ==
    key \o <<":">> \o LeftJustify(PadWidth - Len(key), <<>>) \o value
    \o <<sep>>

PairLine(key, value, sep) ==
    IF sep = NUL
    THEN key \o <<"=">> \o value \o <<sep>>
    ELSE key \o <<":">> \o LeftJustify(PadWidth - Len(key), <<>>) \o value
         \o <<sep>>

\* the three printf() of the loop that walks params
ParmLine(p, sep) ==
    LET label == LeftJustify(LabelWidth, S_parm \o <<":">>)
        name == PrecStr(p.namelen, p.name)
    IN  IF p.param = NULL
        THEN label \o name \o <<":">>
             \o (IF p.type = NULL THEN <<>> ELSE PrecStr(p.typelen, Deref(p.type)))
             \o <<sep>>
        ELSE IF p.type # NULL
        THEN label \o name \o PrecStr(p.paramlen, Deref(p.param))
             \o <<" ", "(">> \o PrecStr(p.typelen, Deref(p.type)) \o <<")">>
             \o <<sep>>
        ELSE label \o name \o PrecStr(p.paramlen, Deref(p.param)) \o <<sep>>

(***************************************************************************)
(* The inputs.  A module is what libkmod answers for it: its path, the     *)
(* value kmod_module_get_info returns (negative on failure, else the       *)
(* number of records) and the records.  An identifier is what main's       *)
(* stat() and libkmod's constructor answer for it: a module file ("path")  *)
(* or not ("alias"), the constructor's return value and the modules.       *)
(***************************************************************************)
Pair(key, value) == [key |-> key, value |-> value]

Module(path, info) == [path |-> path, info_ret |-> Len(info), info |-> info]

\* kmod_module_get_info fails: a negative errno, no list
NoInfoModule(path) == [path |-> path, info_ret |-> 0 - 2, info |-> <<>>]

V_me == <<"m","e">>

V_a_d == <<"a",":","d">>

V_a_t == <<"a",":","t">>

V_b_u == <<"b",":","u">>

V_bad == <<"b","a","d">>

Pairs ==
    { Pair(S_author, V_me),
      Pair(S_parm, V_a_d), Pair(S_parmtype, V_a_t), Pair(S_parmtype, V_b_u),
      Pair(S_parm, V_bad), Pair(S_parmtype, V_bad) }

BoundedInfos == UNION { [1..n -> Pairs] : n \in 0..MaxPairs }

P_m == <<"/","m">>

P_foo == <<"/","l","i","b","/","m","o","d","u","l","e","s","/","x","/","f","o","o",".","k","o">>

V_A_One == <<"A","."," ","O","n","e">>

V_debug_descr == <<"d","e","b","u","g",":","e","n","a","b","l","e"," ","d","e","b","u","g">>

V_debug_bool == <<"d","e","b","u","g",":","b","o","o","l">>

V_bad_no_colon == <<"b","a","d","-","n","o","-","c","o","l","o","n">>

ExampleModule ==
    Module(P_foo, << Pair(S_author, V_A_One), Pair(S_parm, V_debug_descr),
                     Pair(S_parmtype, V_debug_bool) >>)

BadModule == Module(P_foo, << Pair(S_parm, V_bad_no_colon) >>)

ParmModule == Module(P_m, << Pair(S_parm, V_a_d) >>)

AuthorModule == Module(P_m, << Pair(S_author, V_me) >>)

ReportModules ==
    { Module(P_m, s) : s \in BoundedInfos }
    \cup { ExampleModule, BadModule, NoInfoModule(P_m) }

PathId(m) == [kind |-> "path", err |-> 0, mods |-> <<m>>]

\* kmod_module_new_from_path fails
PathFailId == [kind |-> "path", err |-> 0 - 2, mods |-> <<>>]

\* kmod_module_new_from_lookup succeeds with the modules ms, none included
AliasId(ms) == [kind |-> "alias", err |-> 0, mods |-> ms]

\* kmod_module_new_from_lookup fails
AliasFailId == [kind |-> "alias", err |-> 0 - 2, mods |-> <<>>]

AliasModules == { AuthorModule, NoInfoModule(P_m) }

\* the expansions of an alias: up to MaxMods modules, at most one of them
\* without metadata
AliasLists ==
    { ms \in UNION { [1..n -> AliasModules] : n \in 0..MaxMods } :
        Cardinality({ k \in 1..Len(ms) : ms[k].info_ret < 0 }) <= 1 }

RunIdentifiers ==
    { PathId(ParmModule), PathId(BadModule), PathFailId, AliasFailId }
    \cup { AliasId(ms) : ms \in AliasLists }

\* one module file, with every bounded record list
ReportRuns == { << PathId(m) >> : m \in ReportModules }

\* several identifiers
Runs == UNION { [1..n -> RunIdentifiers] : n \in 1..MaxArgs }

Fields ==
    { NULL, Ptr(S_filename), Ptr(S_author), Ptr(S_parm), Ptr(S_license) }

\* the filters tried on several identifiers
RunFields == { NULL, Ptr(S_filename), Ptr(S_parm) }

Separators == { "\n", NUL }

Init ==
    /\ separator \in Separators
    /\ \/ argv \in ReportRuns /\ field \in Fields
       \/ argv \in Runs /\ field \in RunFields
    /\ i = 1
    /\ mainErr = 0
    /\ exitStatus = 0 - 1
    /\ modlist = <<>>
    /\ j = 0
    /\ aliasErr = 0
    /\ caller = "none"
    /\ mod = NULL
    /\ list = <<>>
    /\ l = 0
    /\ params = <<>>
    /\ err = 0
    /\ out = <<>>
    /\ diag = <<>>
    /\ outMark = 0
    /\ diagMark = 0
    /\ reported = <<>>
    /\ pc = "main"

Log(kind, a, b) == [kind |-> kind, a |-> a, b |-> b]

(***************************************************************************)
(* main, the loop over the identifiers.                                    *)
(***************************************************************************)
mainVars == <<i, mainErr, exitStatus>>

aliasVars == <<modlist, j, aliasErr>>

doVars == <<mod, list, l, params, err, outMark, diagMark>>

\* a variant that leaves the loop at the first error
MainLoopCond_stop == i <= Len(argv) /\ mainErr >= 0

\* for (i = optind; i < argc; i++)
MainLoopCond == i <= Len(argv)

\* if (r < 0) err = r;
Accumulate(e, r) == IF r < 0 THEN r ELSE e

\* return err >= 0 ? EXIT_SUCCESS : EXIT_FAILURE;
ExitCode(e) == IF e >= 0 THEN EXIT_SUCCESS ELSE EXIT_FAILURE

MainExit ==
    /\ pc = "main"
    /\ ~MainLoopCond
    /\ exitStatus' = ExitCode(mainErr)
    /\ pc' = "exit"
    /\ UNCHANGED <<separator, field, argv, i, mainErr, aliasVars, caller,
                   doVars, out, diag, reported>>

\* modinfo_path_do, to the call of modinfo_do
ModinfoPathDo ==
    /\ pc = "main"
    /\ MainLoopCond
    /\ argv[i].kind = "path"
    /\ IF argv[i].err < 0
       THEN /\ diag' = Append(diag, Log("path_not_found", i, argv[i].err))
            /\ mainErr' = Accumulate(mainErr, argv[i].err)
            /\ i' = i + 1
            /\ pc' = "main"
            /\ UNCHANGED <<mod, caller>>
       ELSE /\ mod' = Ptr(argv[i].mods[1])
            /\ caller' = "path"
            /\ pc' = "modinfo_do"
            /\ UNCHANGED <<diag, mainErr, i>>
    /\ UNCHANGED <<separator, field, argv, exitStatus, aliasVars, list, l,
                   params, err, outMark, diagMark, out, reported>>

\* modinfo_alias_do, to its loop
ModinfoAliasDo ==
    /\ pc = "main"
    /\ MainLoopCond
    /\ argv[i].kind = "alias"
    /\ IF argv[i].err < 0
       THEN /\ diag' = Append(diag, Log("alias_not_found", i, argv[i].err))
            /\ mainErr' = Accumulate(mainErr, argv[i].err)
            /\ i' = i + 1
            /\ pc' = "main"
            /\ UNCHANGED aliasVars
       ELSE /\ modlist' = argv[i].mods
            /\ aliasErr' = argv[i].err
            /\ j' = 1
            /\ pc' = "alias_loop"
            /\ UNCHANGED <<diag, mainErr, i>>
    /\ UNCHANGED <<separator, field, argv, exitStatus, caller, doVars, out,
                   reported>>

\* kmod_list_foreach(l, list)
AliasLoopCond == j <= Len(modlist)

\* one round of modinfo_alias_do's loop, to the call of modinfo_do
AliasLoopCall ==
    /\ pc = "alias_loop"
    /\ AliasLoopCond
    /\ mod' = Ptr(modlist[j])
    /\ caller' = "alias"
    /\ pc' = "modinfo_do"
    /\ UNCHANGED <<separator, field, argv, mainVars, aliasVars, list, l,
                   params, err, outMark, diagMark, out, diag, reported>>

\* modinfo_alias_do returns, and main goes to the next identifier
AliasLoopReturn ==
    /\ pc = "alias_loop"
    /\ ~AliasLoopCond
    /\ mainErr' = Accumulate(mainErr, aliasErr)
    /\ i' = i + 1
    /\ modlist' = <<>>
    /\ pc' = "main"
    /\ UNCHANGED <<separator, field, argv, exitStatus, j, aliasErr, caller,
                   doVars, out, diag, reported>>

(***************************************************************************)
(* modinfo_do.  Its returns all pass through pc = "end", where the report  *)
(* of the module is complete and err holds the value returned.             *)
(***************************************************************************)
\* a variant without the special case
IsFilenameField_never(f) == FALSE

\* field != NULL && strcmp(field, "filename") == 0
IsFilenameField(f) == f # NULL /\ Deref(f) = S_filename

\* from the entry to the loop over the records: the filename line and the
\* call of kmod_module_get_info
ModinfoDoEntry ==
    /\ pc = "modinfo_do"
    /\ outMark' = Len(out)
    /\ diagMark' = Len(diag)
    /\ params' = <<>>
    /\ LET m == Deref(mod)
       IN  IF IsFilenameField(field)
           THEN /\ out' = Append(out, FilenameOnlyLine(m.path, separator))
                /\ err' = 0
                /\ list' = <<>>
                /\ l' = 0
                /\ diag' = diag
                /\ pc' = "end"
           ELSE /\ out' = IF field = NULL
                          THEN Append(out, FilenameLine(m.path, separator))
                          ELSE out
                /\ err' = m.info_ret
                /\ IF m.info_ret < 0
                   THEN /\ diag' = Append(diag,
                                          Log("no_modinfo", m.path, m.info_ret))
                        /\ list' = <<>>
                        /\ l' = 0
                        /\ pc' = "end"
                   ELSE /\ diag' = diag
                        /\ list' = m.info
                        /\ l' = 1
                        /\ pc' = "scan"
    /\ UNCHANGED <<separator, field, argv, mainVars, aliasVars, caller, mod,
                   reported>>

\* a variant without the check
MissingColon_never(colon) == FALSE

\* if (colon == NULL)
MissingColon(colon) == colon = 0

\* a variant that compares only the filter's length: strncmp
FieldMatches_prefix(f, key) == PrecStr(Len(Deref(f)), key) = Deref(f)

\* if (strcmp(field, key) != 0) continue;
FieldMatches(f, key) == Deref(f) = key

\* one round of kmod_list_foreach(l, list)
ScanPair ==
    /\ pc = "scan"
    /\ l <= Len(list)
    /\ LET key == list[l].key
           value == list[l].value
           colon == strchr(value, ":")
       IN  IF field # NULL
           THEN /\ out' = IF FieldMatches(field, key)
                          THEN Append(out, FilteredLine(value, separator))
                          ELSE out
                /\ l' = l + 1
                /\ UNCHANGED <<params, diag, pc>>
           ELSE IF IsParmRecord(key)
           THEN IF MissingColon(colon)
                THEN /\ diag' = Append(diag, Log("invalid_parm", key, value))
                     /\ l' = l + 1
                     /\ UNCHANGED <<params, out, pc>>
                ELSE \E malloc_ok \in BOOLEAN :
                       LET a == ParmArgs(key, value, colon)
                           r == add_param(a.name, a.namelen, a.param,
                                          a.paramlen, a.type, a.typelen,
                                          params, malloc_ok)
                       IN  IF r.ret = NULL
                           THEN /\ diag' = Append(diag, Log("oom", key, value))
                                /\ pc' = "end"
                                /\ UNCHANGED <<params, out, l>>
                           ELSE /\ params' = r.list
                                /\ l' = l + 1
                                /\ UNCHANGED <<diag, out, pc>>
           ELSE /\ out' = Append(out, PairLine(key, value, separator))
                /\ l' = l + 1
                /\ UNCHANGED <<params, diag, pc>>
    /\ UNCHANGED <<separator, field, argv, mainVars, aliasVars, caller, mod,
                   list, err, outMark, diagMark, reported>>

\* the loop over the records ends: if (field != NULL) goto end;
ScanDone ==
    /\ pc = "scan"
    /\ l > Len(list)
    /\ pc' = IF field # NULL \/ params = <<>> THEN "end" ELSE "render"
    /\ UNCHANGED <<separator, field, argv, mainVars, aliasVars, caller,
                   doVars, out, diag, reported>>

\* one round of while (params != NULL)
RenderParam ==
    /\ pc = "render"
    /\ params # <<>>
    /\ out' = Append(out, ParmLine(Head(params), separator))
    /\ params' = Tail(params)
    /\ pc' = IF Tail(params) = <<>> THEN "end" ELSE "render"
    /\ UNCHANGED <<separator, field, argv, mainVars, aliasVars, caller, mod,
                   list, l, err, outMark, diagMark, diag, reported>>

\* end: the lists are freed and err is returned, to modinfo_path_do and main
\* or to the loop of modinfo_alias_do
ModinfoDoReturn ==
    /\ pc = "end"
    /\ params' = <<>>
    /\ list' = <<>>
    /\ l' = 0
    /\ mod' = NULL
    /\ IF caller = "path"
       THEN /\ reported' = Append(reported, <<i, 1>>)
            /\ mainErr' = Accumulate(mainErr, err)
            /\ i' = i + 1
            /\ pc' = "main"
            /\ UNCHANGED <<j, aliasErr>>
       ELSE /\ reported' = Append(reported, <<i, j>>)
            /\ aliasErr' = Accumulate(aliasErr, err)
            /\ j' = j + 1
            /\ pc' = "alias_loop"
            /\ UNCHANGED <<i, mainErr>>
    /\ UNCHANGED <<separator, field, argv, exitStatus, modlist, caller, err,
                   outMark, diagMark, out, diag>>

Next ==
    \/ MainExit
    \/ ModinfoPathDo
    \/ ModinfoAliasDo
    \/ AliasLoopCall
    \/ AliasLoopReturn
    \/ ModinfoDoEntry
    \/ ScanPair
    \/ ScanDone
    \/ RenderParam
    \/ ModinfoDoReturn

Spec == Init /\ [][Next]_vars

(***************************************************************************)
(* What the properties speak of.                                           *)
(***************************************************************************)
IsPrefix(s, t) == Len(s) <= Len(t) /\ SubSeq(t, 1, Len(s)) = s

Reverse(s) == [k \in 1..Len(s) |-> s[Len(s) + 1 - k]]

Range(s) == { s[k] : k \in 1..Len(s) }

Max(S) == CHOOSE x \in S : \A y \in S : y <= x

\* what the current modinfo_do has written
ModuleOut == SubSeq(out, outMark + 1, Len(out))

ModuleDiag == SubSeq(diag, diagMark + 1, Len(diag))

\* the records of the module modinfo_do works on
CurInfo == Deref(mod).info

ModuleOOM == \E k \in 1..Len(ModuleDiag) : ModuleDiag[k].kind = "oom"

\* modinfo_do is about to return a report it did not abandon
Complete == pc = "end" /\ err >= 0 /\ ~ModuleOOM

WellFormed(p) == IsParmRecord(p.key) /\ strchr(p.value, ":") # 0

Malformed(p) == IsParmRecord(p.key) /\ strchr(p.value, ":") = 0

NameOf(p) == SubSeq(p.value, 1, strchr(p.value, ":") - 1)

RestOf(p) == SubSeq(p.value, strchr(p.value, ":") + 1, Len(p.value))

OrdinaryPairs(info) == SelectSeq(info, LAMBDA p : ~IsParmRecord(p.key))

\* the distinct parameter names of the well-formed records, as first seen
RECURSIVE FirstSeenNames(_)
FirstSeenNames(info) ==
    IF info = <<>>
    THEN <<>>
    ELSE LET before == FirstSeenNames(SubSeq(info, 1, Len(info) - 1))
             last == info[Len(info)]
         IN  IF WellFormed(last) /\ NameOf(last) \notin Range(before)
             THEN Append(before, NameOf(last))
             ELSE before

ParmLabel == S_parm \o <<":">> \o Spaces(LabelWidth - 5)

\* the lines of the current report after the filename line and the lines of
\* the ordinary records
ParmLinesOut ==
    SubSeq(ModuleOut, 2 + Len(OrdinaryPairs(CurInfo)), Len(ModuleOut))

\* what the last well-formed record of this key and name gives, or NULL
LastOf(info, key, n) ==
    LET S == { k \in 1..Len(info) :
                 WellFormed(info[k]) /\ info[k].key = key
                 /\ NameOf(info[k]) = n }
    IN  IF S = {} THEN NULL ELSE Ptr(RestOf(info[Max(S)]))

\* the parm line of name n as the three documented forms give it
DocParmLine(info, n, sep) ==
    LET d == LastOf(info, S_parm, n)
        t == LastOf(info, S_parmtype, n)
    IN  ParmLabel \o n
        \o (IF d = NULL THEN <<":">> \o Deref(t)
            ELSE IF t = NULL THEN <<>>
            ELSE <<" ">> \o Deref(d) \o <<" ", "(">> \o Deref(t) \o <<")">>)
        \o <<sep>>

\* the parameter table the loop over the records builds when no malloc fails
RECURSIVE Aggregate(_)
Aggregate(info) ==
    IF info = <<>>
    THEN <<>>
    ELSE LET before == Aggregate(SubSeq(info, 1, Len(info) - 1))
             last == info[Len(info)]
             colon == strchr(last.value, ":")
             a == ParmArgs(last.key, last.value, colon)
         IN  IF IsParmRecord(last.key) /\ ~MissingColon(colon)
             THEN add_param(a.name, a.namelen, a.param, a.paramlen, a.type,
                            a.typelen, before, TRUE).list
             ELSE before

\* an entry without its pointer into the record that created it
EntryOf(p) ==
    [name |-> PrecStr(p.namelen, p.name), param |-> p.param,
     paramlen |-> p.paramlen, type |-> p.type, typelen |-> p.typelen]

ParamNames(plist) == [k \in 1..Len(plist) |-> PrecStr(plist[k].namelen, plist[k].name)]

(***************************************************************************)
(* C1: in default mode each merged parameter is one line, the label        *)
(* "parm:" in 16 columns and then name:type (only a parmtype record),      *)
(* name (only a parm record) or name description (type) (both); the        *)
(* records author "A. One", parm "debug:enable debug", parmtype            *)
(* "debug:bool" with the newline separator give the filename line, the     *)
(* author line and "parm:           debug enable debug (bool)".            *)
(***************************************************************************)
C1_ParmLineForms ==
    /\ (Complete /\ field = NULL) =>
          Range(ParmLinesOut) =
             { DocParmLine(CurInfo, n, separator) :
                 n \in Range(FirstSeenNames(CurInfo)) }
    /\ (Complete /\ field = NULL /\ separator = "\n"
        /\ Deref(mod) = ExampleModule) =>
          ModuleOut = << <<"f","i","l","e","n","a","m","e",":"," "," "," "," "," "," "," ","/","l","i","b","/","m","o","d","u","l","e","s","/","x","/","f","o","o",".","k","o","\n">>,
                         <<"a","u","t","h","o","r",":"," "," "," "," "," "," "," "," "," ","A","."," ","O","n","e","\n">>,
                         <<"p","a","r","m",":"," "," "," "," "," "," "," "," "," "," "," ","d","e","b","u","g"," ","e","n","a","b","l","e"," ","d","e","b","u","g"," ","(","b","o","o","l",")","\n">> >>

C3_MergeCommutes ==
    (/\ pc = "scan"
     /\ field = NULL
     /\ l = 3
     /\ Len(list) = 2
     /\ WellFormed(list[1]) /\ WellFormed(list[2])
     /\ NameOf(list[1]) = NameOf(list[2])
     /\ list[1].key # list[2].key)
    => /\ Len(params) = 1
       /\ EntryOf(params[1]) = EntryOf(Aggregate(<<list[2], list[1]>>)[1])

(***************************************************************************)
(* C4: the exit status is success only if no error of any kind was         *)
(* reported during the run (a malformed parm or parmtype record, an        *)
(* identifier not found, a metadata retrieval failure, an allocation       *)
(* failure).                                                               *)
(***************************************************************************)
C4_ExitFailureOnAnyError ==
    (pc = "exit" /\ diag # <<>>) => exitStatus # EXIT_SUCCESS

(***************************************************************************)
(* C5: an identifier whose alias lookup yields no module is reported on    *)
(* the diagnostic stream and makes the exit status non-zero.               *)
(***************************************************************************)
C5_NotFoundReported ==
    pc = "exit" =>
       \A k \in 1..Len(argv) :
          (argv[k].kind = "alias" /\ argv[k].mods = <<>>) =>
             /\ exitStatus = EXIT_FAILURE
             /\ \E n \in 1..Len(diag) :
                   diag[n].kind = "alias_not_found" /\ diag[n].a = k

ColonStyle(line) ==
    LET c == strchr(line, ":")
    IN  /\ c # 0
        /\ c < LabelWidth
        /\ Len(line) >= LabelWidth
        /\ \A k \in (c + 1)..LabelWidth : line[k] = " "

EqStyle(line) ==
    LET e == strchr(line, "=")
        c == strchr(line, ":")
    IN  e > 1 /\ (c = 0 \/ e < c)

(***************************************************************************)
(* C7 as stated: in default mode with the NUL separator no line written    *)
(* has the padded key:value form, every line has the form key=value.       *)
(***************************************************************************)
C7_NulAllLinesKeyEqValue ==
    (field = NULL /\ separator = NUL) =>
       \A k \in 1..Len(out) : EqStyle(out[k]) /\ ~ColonStyle(out[k])

(***************************************************************************)
(* C7 amended: in default mode with the NUL separator the line of every    *)
(* record whose key is neither parm nor parmtype is key=value and not the  *)
(* padded key:value form; the filename line and the merged parm lines      *)
(* keep their padded 16-column label.                                      *)
(***************************************************************************)
C7_NulOrdinaryLinesKeyEqValue ==
    (pc \in {"scan", "render", "end"} /\ field = NULL /\ separator = NUL) =>
       LET ord == OrdinaryPairs(SubSeq(list, 1, l - 1))
       IN  /\ Len(ModuleOut) >= 1 + Len(ord)
           /\ \A k \in 1..Len(ModuleOut) :
                 IF k \in 2..(1 + Len(ord))
                 THEN /\ ModuleOut[k] = ord[k - 1].key \o <<"=">>
                                        \o ord[k - 1].value \o <<NUL>>
                      /\ EqStyle(ModuleOut[k])
                      /\ ~ColonStyle(ModuleOut[k])
                 ELSE ColonStyle(ModuleOut[k]) /\ ~EqStyle(ModuleOut[k])

C7_Witness ==
    /\ Complete
    /\ field = NULL
    /\ separator = NUL
    /\ Len(OrdinaryPairs(CurInfo)) >= 1
    /\ Len(ParmLinesOut) >= 1
    /\ Len(ModuleOut) = 2 + Len(OrdinaryPairs(CurInfo))

(***************************************************************************)
(* C8: with a filter other than "filename", when the records of a module   *)
(* were delivered, its output is the bare values of the records whose key  *)
(* equals the filter, in source order, each followed by the separator,     *)
(* and nothing else (no filename line, no merged parm line, parm and       *)
(* parmtype records unmerged); without a matching record the output is    *)
(* empty; no error is reported.                                            *)
(***************************************************************************)
C8_FilteredBareValues ==
    (pc = "end" /\ field # NULL /\ field # Ptr(S_filename) /\ err >= 0) =>
       LET hits == SelectSeq(CurInfo, LAMBDA p : p.key = field[1])
       IN  /\ ModuleOut = [k \in 1..Len(hits) |-> hits[k].value \o <<separator>>]
           /\ ModuleDiag = <<>>
           /\ params = <<>>

C8_Witness ==
    /\ pc = "end"
    /\ field = Ptr(S_parm)
    /\ err >= 0
    /\ Len(CurInfo) = 3
    /\ CurInfo[1].key = S_parm
    /\ CurInfo[2].key = S_parmtype
    /\ CurInfo[3].key = S_parm
    /\ Len(ModuleOut) = 2

(***************************************************************************)
(* C9: with the filter "filename" the output of a module is one line, its  *)
(* path followed by the separator, whatever its records are and even when  *)
(* they could not be delivered; no record is scanned and the report        *)
(* succeeds.                                                               *)
(***************************************************************************)
C9_FilenameOnly ==
    field = Ptr(S_filename) =>
       /\ pc \notin {"scan", "render"}
       /\ params = <<>>
       /\ list = <<>>
       /\ pc = "end" =>
             /\ ModuleOut = << Deref(mod).path \o <<separator>> >>
             /\ ModuleDiag = <<>>
             /\ err = 0

C9_Witness ==
    /\ pc = "end"
    /\ field = Ptr(S_filename)
    /\ Deref(mod).info_ret < 0
    /\ Len(ModuleOut) = 1

(***************************************************************************)
(* C10: no short-circuit.  Whatever fails, the run does not stop before    *)
(* main's loop is over, modinfo_do returns for every module of every       *)
(* identifier, in order and one after the other, and what was written is   *)
(* never changed.                                                          *)
(***************************************************************************)
\* the <<identifier, module>> positions of the run, in order
RECURSIVE AllModules(_)
AllModules(k) ==
    IF k = 0
    THEN <<>>
    ELSE AllModules(k - 1) \o [m \in 1..Len(argv[k].mods) |-> <<k, m>>]

C10_NoShortCircuit ==
    /\ [](pc = "exit" => /\ i = Len(argv) + 1
                         /\ reported = AllModules(Len(argv)))
    /\ [](pc # "exit" => ENABLED Next)
    /\ [](pc \in {"modinfo_do", "scan", "render", "end"} =>
            reported = SubSeq(AllModules(i), 1, Len(reported))
            /\ Len(reported) < Len(AllModules(i)))
    /\ [][IsPrefix(out, out') /\ IsPrefix(diag, diag')
          /\ IsPrefix(reported, reported')]_vars

C10_Witness ==
    /\ pc = "exit"
    /\ Len(argv) = 2
    /\ argv[1].kind = "alias"
    /\ Len(argv[1].mods) = 2
    /\ argv[1].mods[1].info_ret < 0
    /\ argv[2].kind = "path"
    /\ argv[2].err >= 0
    /\ field = NULL
    /\ Len(reported) = 3
    /\ Len(diag) = 1
    /\ Len(out) >= 4

====
